---- MODULE Spec2Model ----
(***************************************************************************)
(* Client-side session and data-synchronisation layer of nexus-ai-notes:   *)
(* AuthProvider (session store), the router with the screens' mount        *)
(* effects, the Dashboard document list, the AddEditDoc document fetch and *)
(* the Q&A transcript.                                                     *)
(*                                                                         *)
(* JavaScript values are records [js |-> type, v |-> payload] so that      *)
(* null, undefined, strings and objects can be told apart, as the code's   *)
(* truthiness tests and JSON conversions do.                               *)
(***************************************************************************)
EXTENDS Naturals, Sequences, FiniteSets, TLC

VARIABLES
    user,           \* AuthProvider: useState<User | null>(null)
    loading,        \* AuthProvider: useState(true)
    lsToken,        \* localStorage 'token'
    lsUser,         \* localStorage 'user'
    lsQa,           \* localStorage 'qaHistory'
    route,          \* current location of the BrowserRouter
    mounted,        \* the first commit's child effects have run
    authReq,        \* outstanding login / register calls
    lastOp,         \* the handler that ran last and what it returned
    documents,      \* Dashboard: useState<Document[]>([])
    allTags,        \* Dashboard: useState<string[]>([])
    isLoading,      \* Dashboard: useState(true)
    docsReq,        \* outstanding documentsAPI.getAll() requests
    searchQuery,    \* Dashboard: useState('')
    selectedTags,   \* Dashboard: useState<string[]>([])
    filteredDocuments, \* Dashboard: useState<Document[]>([])
    mutReq,         \* outstanding DocCard delete / summarize / generateTags
    title,          \* AddEditDoc: useState('')
    content,        \* AddEditDoc: useState('')
    tags,           \* AddEditDoc: useState<string[]>([])
    isLoadingDoc,   \* AddEditDoc: useState(false)
    docReq,         \* outstanding documentsAPI.getById() requests
    messages,       \* QA: useState<QAMessage[]>([])
    currentQuestion,\* QA: useState('')
    isAsking,       \* QA: useState(false)
    askReq,         \* outstanding searchAPI.askQuestion() requests
    searchText,     \* Search: useState('') (the screen's searchQuery)
    searchResults,  \* Search: useState<SearchResult[]>([])
    isSearching,    \* Search: useState(false)
    recentSearches, \* Search: useState<string[]>([])
    hasSearched,    \* Search: useState(false)
    lsRecent,       \* localStorage 'recentSearches'
    searchReq,      \* outstanding searchAPI.searchDocuments() requests
    newTag,         \* AddEditDoc: useState('')
    isSubmitting,   \* AddEditDoc: useState(false)
    isGeneratingTags, \* AddEditDoc: useState(false)
    submitReq,      \* outstanding documentsAPI.create() / update() requests
    apiOptions,     \* apiRequest: the options of the last call
    apiConfig       \* apiRequest: the RequestInit it handed to fetch

authVars == <<user, loading, lsToken, lsUser, authReq>>
dashVars == <<documents, allTags, isLoading, docsReq, searchQuery, selectedTags,
             filteredDocuments>>
editVars == <<title, content, tags, isLoadingDoc, docReq, newTag, isSubmitting,
             isGeneratingTags, submitReq>>
qaVars   == <<messages, currentQuestion, isAsking, askReq>>
searchVars == <<searchText, searchResults, isSearching, recentSearches,
               hasSearched, lsRecent, searchReq>>
apiVars  == <<apiOptions, apiConfig>>
vars == <<user, loading, lsToken, lsUser, lsQa, route, mounted, authReq,
          lastOp, documents, allTags, isLoading, docsReq, title, content,
          tags, isLoadingDoc, docReq, messages, currentQuestion, isAsking,
          askReq, searchQuery, selectedTags, filteredDocuments, mutReq,
          searchText, searchResults, isSearching, recentSearches, hasSearched,
          lsRecent, searchReq, newTag, isSubmitting, isGeneratingTags,
          submitReq, apiOptions, apiConfig>>

----------------------------------------------------------------------------
\* Bounds of the model.
MaxAuthReq == 1     \* outstanding login (and register) calls
MaxDocsReq == 1     \* outstanding list fetches
MaxDocReq  == 1     \* outstanding single-document fetches
MaxAskReq  == 2     \* outstanding ask requests
MaxMsgs    == 4     \* transcript entries

----------------------------------------------------------------------------
\* JavaScript values.
JsNull  == [js |-> "null", v |-> ""]
JsUndef == [js |-> "undefined", v |-> ""]
Str(s)  == [js |-> "string", v |-> s]
Obj(id) == [js |-> "object", v |-> id]

\* if (x), !!x, x || y
Truthy(x) ==
    CASE x.js = "null" -> FALSE
      [] x.js = "undefined" -> FALSE
      [] x.js = "string" -> x.v # ""
      [] OTHER -> TRUE

Or(x, y) == IF Truthy(x) THEN x ELSE y

\* String(x), the coercion localStorage.setItem applies to its value
JsString(x) ==
    CASE x.js = "string" -> x.v
      [] x.js = "null" -> "null"
      [] x.js = "undefined" -> "undefined"
      [] OTHER -> "[object Object]"

\* JSON.stringify of a user value: undefined has no JSON text
JSONstringify(x) ==
    CASE x.js = "undefined" -> JsUndef
      [] x.js = "null" -> Str("null")
      [] x.js = "object" -> Str("{" \o x.v \o "}")
      [] OTHER -> Str("\"" \o x.v \o "\"")

\* JSON.parse of a stored text: ok = FALSE stands for the SyntaxError
JSONparse(s) ==
    CASE s = "null" -> [ok |-> TRUE, val |-> JsNull]
      [] s = "{}" -> [ok |-> TRUE, val |-> Obj("")]
      [] s = "{u1}" -> [ok |-> TRUE, val |-> Obj("u1")]
      [] s = "{u2}" -> [ok |-> TRUE, val |-> Obj("u2")]
      [] OTHER -> [ok |-> FALSE, val |-> JsUndef]

\* localStorage.setItem(key, value) / removeItem(key), as the stored value
setItem(x) == Str(JsString(x))
removeItem == JsNull

isAuthenticated == Truthy(user)

----------------------------------------------------------------------------
\* Router (App.tsx).  "none" is the location before the first commit.
Routes == {"/login", "/dashboard", "/add-doc", "/edit-doc/d1", "/edit-doc/d2",
           "/search", "/qa"}

\* The tree after an error nobody caught in a render or an effect: React
\* unmounts the root and nothing is on the screen until the page is loaded
\* again.
Crashed == "crashed"

\* <Route path=... element=...>: the component a location renders.  Two
\* routes with the same component keep the component instance and its state.
Comp(r) ==
    CASE r = "/login" -> "Login"
      [] r = "/dashboard" -> "Dashboard"
      [] r \in {"/add-doc", "/edit-doc/d1", "/edit-doc/d2"} -> "AddEditDoc"
      [] r = "/search" -> "Search"
      [] r = "/qa" -> "QA"
      [] OTHER -> "None"

\* useParams().id of the AddEditDoc routes ("" when the route has none)
IdOf(r) ==
    CASE r = "/edit-doc/d1" -> "d1"
      [] r = "/edit-doc/d2" -> "d2"
      [] OTHER -> ""

\* The screens that start with
\*   useEffect(() => { if (!loading && !isAuthenticated) navigate('/login') })
Protected == {"Dashboard", "AddEditDoc", "Search", "QA"}

Redirected(new, ld, u) == Comp(new) \in Protected /\ ~ld /\ ~Truthy(u)

FinalRoute(new, ld, u) == IF Redirected(new, ld, u) THEN "/login" ELSE new

\* if (loading || !isAuthenticated) return null;  the screen shows content
Rendered == Comp(route) \in Protected /\ mounted /\ ~loading /\ isAuthenticated

\* A request whose component has been unmounted: its setState calls are
\* dropped when it resolves.
Orphaned(reqs) == [i \in 1..Len(reqs) |-> [reqs[i] EXCEPT !.live = FALSE]]

Items(l) == {l[i] : i \in 1..Len(l)}

RemoveAt(s, i) == [j \in 1..(Len(s) - 1) |-> IF j < i THEN s[j] ELSE s[j + 1]]

----------------------------------------------------------------------------
\* Dashboard: the document list.  Text is a sequence of one-character
\* strings.
NoSummary == [has |-> FALSE, text |-> <<>>]

\* hasTags = FALSE is a document that came back without a tags field (the
\* create request sends tags as an optional field, AddEditDoc reads
\* document.tags || []).
D1 == [id |-> "d1", title |-> <<"A">>, content |-> <<"x">>,
       tags |-> <<"t", "u">>, hasTags |-> TRUE, summary |-> NoSummary]
D2 == [id |-> "d2", title |-> <<"b">>, content |-> <<"y", "A">>,
       tags |-> <<"u">>, hasTags |-> TRUE,
       summary |-> [has |-> TRUE, text |-> <<"a", "b">>]]

\* GET /api/documents answers Document[] or {documents: Document[]}
ListResponses == {[wrapped |-> FALSE, docs |-> <<>>],
                  [wrapped |-> TRUE, docs |-> <<D1>>],
                  [wrapped |-> FALSE, docs |-> <<D2, D1>>]}

\* response.documents || response
Unwrap(resp) == resp.docs

\* tags.add(tag) for each tag of one document, in order
RECURSIVE AddTags(_, _)
AddTags(acc, ts) ==
    IF ts = <<>> THEN acc
    ELSE AddTags(IF \E i \in 1..Len(acc) : acc[i] = Head(ts)
                 THEN acc ELSE Append(acc, Head(ts)), Tail(ts))

\* const tags = new Set(); docs.forEach(doc => doc.tags.forEach(...));
\* Array.from(tags)
RECURSIVE UniqueTags(_, _)
UniqueTags(acc, docs) ==
    IF docs = <<>> THEN acc
    ELSE UniqueTags(AddTags(acc, Head(docs).tags), Tail(docs))

\* Dashboard state when the location goes from old to new.  Mounting runs
\* useEffect(() => { fetchDocuments() }, []) whatever the session is; when
\* the redirect effect of the same commit sends the user to /login the
\* request stays in flight without a component.
DashOnRoute(old, new, ld, u) ==
    LET stay  == Comp(old) = "Dashboard" /\ Comp(new) = "Dashboard"
                 /\ ~Redirected(new, ld, u)
        enter == Comp(old) # "Dashboard" /\ Comp(new) = "Dashboard"
    IN  IF stay THEN UNCHANGED dashVars
        ELSE /\ documents' = <<>>
             /\ allTags' = <<>>
             /\ isLoading' = TRUE
             /\ searchQuery' = <<>>
             /\ selectedTags' = <<>>
             /\ filteredDocuments' = <<>>
             /\ docsReq' = Orphaned(docsReq) \o
                    (IF enter THEN <<[live |-> ~Redirected(new, ld, u),
                                      overtaken |-> FALSE]>>
                     ELSE <<>>)

\* AddEditDoc state when the location goes from old to new.
\*   useEffect(() => { if (isEditing && id) fetchDocument(id) }, [isEditing, id])
\* runs on mount and again when the id changes; the useState values are
\* initialised on mount only.
EditOnRoute(old, new, ld, u) ==
    LET here  == Comp(new) = "AddEditDoc" /\ ~Redirected(new, ld, u)
        stay  == Comp(old) = "AddEditDoc" /\ here
        fetch == /\ Comp(new) = "AddEditDoc"
                 /\ IdOf(new) # ""
                 /\ (Comp(old) # "AddEditDoc" \/ IdOf(old) # IdOf(new))
        req   == IF fetch THEN <<[live |-> here, id |-> IdOf(new)]>> ELSE <<>>
    IN  IF stay
        THEN /\ UNCHANGED <<title, content, tags, newTag, isSubmitting,
                            isGeneratingTags, submitReq>>
             /\ isLoadingDoc' = (isLoadingDoc \/ fetch)
             /\ docReq' = docReq \o req
        ELSE /\ title' = <<>>
             /\ content' = <<>>
             /\ tags' = <<>>
             /\ newTag' = <<>>
             /\ isSubmitting' = FALSE
             /\ isGeneratingTags' = FALSE
             /\ submitReq' = Orphaned(submitReq)
             /\ isLoadingDoc' = (here /\ fetch)
             /\ docReq' = Orphaned(docReq) \o req

----------------------------------------------------------------------------
\* Q&A transcript.  An entry is {type, content, timestamp, sources?}; the
\* instant and the id (Date.now()) are not modelled, only the form of the
\* timestamp: a Date in memory, its ISO text in the stored JSON.
NoSources == [has |-> FALSE, list |-> <<>>]
Sources(l) == [has |-> TRUE, list |-> l]

QaAbsent  == [kind |-> "absent", entries |-> <<>>]

\* JSON.stringify(messages): Date.prototype.toJSON gives the ISO text
StringifyMessages(m) ==
    [kind |-> "json",
     entries |-> [i \in 1..Len(m) |-> [m[i] EXCEPT !.timestamp = "iso"]]]

\* parsed.map(msg => ({...msg, timestamp: new Date(msg.timestamp)}))
ReviveMessages(entries) ==
    [i \in 1..Len(entries) |-> [entries[i] EXCEPT !.timestamp = "Date"]]

\* QA load-history effect: the value of messages after it ran on cur
LoadHistory(saved, cur) ==
    IF saved.kind = "json" THEN ReviveMessages(saved.entries) ELSE cur

\* A save effect guarded by messages.length > 1
SaveHistory_OffByOne(saved, m) ==
    IF Len(m) > 1 THEN StringifyMessages(m) ELSE saved

\* QA save-history effect: the stored text after it ran for messages m
SaveHistory(saved, m) == IF Len(m) > 0 THEN StringifyMessages(m) ELSE saved

\* QA state when the location goes from old to new.
QaOnRoute(old, new, ld, u) ==
    LET stay  == Comp(old) = "QA" /\ Comp(new) = "QA"
                 /\ ~Redirected(new, ld, u)
        enter == Comp(old) # "QA" /\ Comp(new) = "QA"
                 /\ ~Redirected(new, ld, u)
    IN  IF stay THEN UNCHANGED <<qaVars, lsQa>>
        ELSE /\ messages' = (IF enter THEN LoadHistory(lsQa, <<>>) ELSE <<>>)
             /\ lsQa' = (IF enter THEN SaveHistory(lsQa, LoadHistory(lsQa, <<>>))
                         ELSE lsQa)
             /\ currentQuestion' = <<>>
             /\ isAsking' = FALSE
             /\ askReq' = Orphaned(askReq)

----------------------------------------------------------------------------
\* Search: the recent-search list.  .slice(0, 5)
RecentLimit == 5

RecentAbsent  == [kind |-> "absent", list |-> <<>>]

\* JSON.stringify(updatedRecent) of an array of strings
StringifyRecent(l) == [kind |-> "json", list |-> l]

\* Search load effect: if (saved) { try { setRecentSearches(JSON.parse(saved)) }
\* catch { console.error } }
LoadRecent(saved, cur) == IF saved.kind = "json" THEN saved.list ELSE cur

\* Search state when the location goes from old to new.
SearchOnRoute(old, new, ld, u) ==
    LET stay  == Comp(old) = "Search" /\ Comp(new) = "Search"
                 /\ ~Redirected(new, ld, u)
        enter == Comp(old) # "Search" /\ Comp(new) = "Search"
                 /\ ~Redirected(new, ld, u)
    IN  IF stay THEN UNCHANGED searchVars
        ELSE /\ searchText' = <<>>
             /\ searchResults' = <<>>
             /\ isSearching' = FALSE
             /\ hasSearched' = FALSE
             /\ recentSearches' = (IF enter THEN LoadRecent(lsRecent, <<>>)
                                   ELSE <<>>)
             /\ lsRecent' = lsRecent
             /\ searchReq' = Orphaned(searchReq)

\* The DocCard handlers still waiting for their request when the screen that
\* rendered the card goes away: the onUpdate they call belongs to the
\* unmounted screen.
CardsOnRoute(old, new, ld, u) ==
    mutReq' = IF Comp(old) = Comp(new) /\ ~Redirected(new, ld, u)
              THEN mutReq ELSE Orphaned(mutReq)

\* The location changes from old to new: the old screen is unmounted, the
\* new one is mounted and its effects run, the auth redirect included.
GoTo(old, new, ld, u) ==
    /\ route' = FinalRoute(new, ld, u)
    /\ DashOnRoute(old, new, ld, u)
    /\ EditOnRoute(old, new, ld, u)
    /\ QaOnRoute(old, new, ld, u)
    /\ SearchOnRoute(old, new, ld, u)
    /\ CardsOnRoute(old, new, ld, u)
    /\ UNCHANGED apiVars

\* Bound on the requests a mount may add.
CanGo(old, new) ==
    /\ (Comp(old) # "Dashboard" /\ Comp(new) = "Dashboard")
          => Len(docsReq) < MaxDocsReq
    /\ (Comp(new) = "AddEditDoc" /\ IdOf(new) # "")
          => Len(docReq) < MaxDocReq

----------------------------------------------------------------------------
\* The API adapter.  A header set is a function from header names to values;
\* options are {method?, body?, headers?}, "" standing for no method.
NoHeaders == [k \in {} |-> ""]

NoOptions == [method |-> "", hasBody |-> FALSE, hasHeaders |-> FALSE,
              headers |-> NoHeaders]

\* {...a, ...b}: the keys of b win
Spread(a, b) ==
    [k \in DOMAIN a \cup DOMAIN b |-> IF k \in DOMAIN b THEN b[k] ELSE a[k]]

\* ...(token && { Authorization: `Bearer ${token}` }): spreading null or ''
\* adds nothing
AuthHeader(token) ==
    IF Truthy(token) THEN [k \in {"Authorization"} |-> "Bearer " \o token.v]
    ELSE NoHeaders

\* the headers literal of apiRequest
MergedHeaders(token, options) ==
    Spread(Spread([k \in {"Content-Type"} |-> "application/json"],
                  AuthHeader(token)),
           IF options.hasHeaders THEN options.headers ELSE NoHeaders)

\* apiRequest: const config = { headers: {...}, ...options }.  The spread of
\* options comes after the headers key, so a headers key of options replaces
\* the merged headers.
apiRequest(token, options) ==
    [method |-> options.method,
     hasBody |-> options.hasBody,
     headers |-> IF options.hasHeaders THEN options.headers
                 ELSE MergedHeaders(token, options)]

\* The options the callers of this repository pass (authAPI, documentsAPI,
\* searchAPI): none, or a method with or without a body.
CallerOptions ==
    {NoOptions,
     [NoOptions EXCEPT !.method = "POST", !.hasBody = TRUE],
     [NoOptions EXCEPT !.method = "POST"],
     [NoOptions EXCEPT !.method = "PUT", !.hasBody = TRUE],
     [NoOptions EXCEPT !.method = "DELETE"]}

\* Options with a headers key, which RequestInit allows
HeaderOptions ==
    {[o EXCEPT !.hasHeaders = TRUE, !.headers = h] :
        o \in {NoOptions, [NoOptions EXCEPT !.method = "POST", !.hasBody = TRUE]},
        h \in {NoHeaders,
               [k \in {"X-Trace"} |-> "1"],
               [k \in {"Content-Type"} |-> "text/plain"]}}

\* apiRequest(endpoint, options) up to the fetch call
apiRequestCall(options) ==
    /\ mounted
    /\ apiOptions' = options
    /\ apiConfig' = apiRequest(lsToken, options)
    /\ lastOp' = [op |-> "apiRequest", ret |-> TRUE, wf |-> FALSE, st |-> 0]
    /\ UNCHANGED <<authVars, lsQa, route, mounted, dashVars, editVars, qaVars,
                   mutReq, searchVars>>

----------------------------------------------------------------------------

TypeOK ==
    /\ loading \in BOOLEAN
    /\ mounted \in BOOLEAN
    /\ route \in Routes \cup {Crashed}
    /\ isLoading \in BOOLEAN
    /\ isSearching \in BOOLEAN
    /\ hasSearched \in BOOLEAN
    /\ isLoadingDoc \in BOOLEAN
    /\ isAsking \in BOOLEAN
    /\ isSubmitting \in BOOLEAN
    /\ isGeneratingTags \in BOOLEAN

InitWith(recent) ==
    /\ user = JsNull
    /\ loading = TRUE
    /\ lsToken \in {JsNull, Str(""), Str("t1")}
    /\ lsUser \in {JsNull, Str("{u1}"), Str("null"), Str("{oops")}
    /\ lsQa \in {QaAbsent, [kind |-> "corrupt", entries |-> <<>>]}
    /\ route \in Routes
    /\ mounted = FALSE
    /\ authReq = [login |-> 0, register |-> 0]
    /\ lastOp = [op |-> "init", ret |-> FALSE, wf |-> FALSE, st |-> 0]
    /\ documents = <<>>
    /\ allTags = <<>>
    /\ isLoading = TRUE
    /\ docsReq = <<>>
    /\ title = <<>>
    /\ content = <<>>
    /\ tags = <<>>
    /\ isLoadingDoc = FALSE
    /\ docReq = <<>>
    /\ newTag = <<>>
    /\ isSubmitting = FALSE
    /\ isGeneratingTags = FALSE
    /\ submitReq = <<>>
    /\ messages = <<>>
    /\ currentQuestion = <<>>
    /\ isAsking = FALSE
    /\ askReq = <<>>
    /\ searchQuery = <<>>
    /\ selectedTags = <<>>
    /\ filteredDocuments = <<>>
    /\ mutReq = <<>>
    /\ searchText = <<>>
    /\ searchResults = <<>>
    /\ isSearching = FALSE
    /\ recentSearches = <<>>
    /\ hasSearched = FALSE
    /\ lsRecent = recent
    /\ searchReq = <<>>
    /\ apiOptions = NoOptions
    /\ apiConfig = [method |-> "", hasBody |-> FALSE, headers |-> NoHeaders]

Init == InitWith(RecentAbsent)

\* The process started at one of the given locations with the session of
\* user u1 stored and no stored transcript.
InitAt(routes) ==
    /\ Init
    /\ lsToken = Str("t1")
    /\ lsUser = Str("{u1}")
    /\ lsQa = QaAbsent
    /\ route \in routes

\* First commit: the effects of the screen at the initial location run
\* before the effect of the enclosing AuthProvider.
MountEffects ==
    /\ ~mounted
    /\ mounted' = TRUE
    /\ GoTo("none", route, loading, user)
    /\ lastOp' = [op |-> "mount", ret |-> FALSE, wf |-> FALSE, st |-> 0]
    /\ UNCHANGED authVars

\* AuthProvider useEffect(..., []): the user it leaves in memory
bootstrapUser ==
    IF Truthy(lsToken)
    THEN LET p == JSONparse(JsString(Or(lsUser, Str("{}"))))
         IN  IF p.ok THEN p.val ELSE user
    ELSE user

\* AuthProvider useEffect(..., []): the catch branch removes both keys
bootstrapClears ==
    Truthy(lsToken) /\ ~JSONparse(JsString(Or(lsUser, Str("{}")))).ok

bootstrap ==
    /\ mounted
    /\ loading
    /\ user' = bootstrapUser
    /\ lsToken' = (IF bootstrapClears THEN removeItem ELSE lsToken)
    /\ lsUser' = (IF bootstrapClears THEN removeItem ELSE lsUser)
    /\ loading' = FALSE
    /\ GoTo(route, route, FALSE, bootstrapUser)
    /\ lastOp' = [op |-> "bootstrap", ret |-> FALSE, wf |-> FALSE, st |-> 0]
    /\ UNCHANGED <<mounted, authReq>>

----------------------------------------------------------------------------
\* Session store operations.  The Login and Register pages are not part of
\* the source; login and register are offered to every consumer of the
\* context, so they can be called whenever bootstrap has finished.

\* The session: the in-memory user and the two persisted keys.
Session == [user |-> user, token |-> lsToken, userKey |-> lsUser]

\* Body of a 2xx answer of POST /api/auth/login, as parsed by response.json()
LoginBodies == [token : {Str("t1"), Str(""), JsUndef},
                user : {Obj("u1"), Obj("u2"), JsNull, JsUndef}]

\* A body of the documented shape {token, user}
WellFormed(body) == body.token.js = "string" /\ body.token.v # ""
                    /\ body.user.js = "object"

\* How a fetch of the session store can end.
\*   ok        2xx, body parsed
\*   okBadBody 2xx, response.json() throws
\*   http      non-2xx, error body parsed
\*   httpBad   non-2xx, response.json() throws
\*   network   fetch rejects
Outcomes == {"ok", "okBadBody", "http", "httpBad", "network"}

\* A login that forgets localStorage.setItem('user', ...)
loginSuccess_NoUserKey(s, body) ==
    [user |-> body.user, token |-> setItem(body.token), userKey |-> s.userKey]

\* login, lines 63-69: the session after the success branch
loginSuccess(s, body) ==
    [user |-> body.user,
     token |-> setItem(body.token),
     userKey |-> setItem(JSONstringify(body.user))]

\* A login that drops the session when the call fails
loginFailure_Clears(s) ==
    [user |-> JsNull, token |-> removeItem, userKey |-> removeItem]

\* login, lines 70-86: the session after the else branch or the catch
loginFailure(s) == s

\* A register that signs the new user in
registerDone_SignsIn(s, outcome) ==
    IF outcome = "ok" THEN [s EXCEPT !.user = Obj("u1")] ELSE s

\* register, lines 98-117: no branch writes the session
registerDone(s, outcome) == s

\* A logout that forgets localStorage.removeItem('user')
logout_KeepsUserKey(s) ==
    [user |-> JsNull, token |-> removeItem, userKey |-> s.userKey]

\* logout, lines 120-125
logout(s) == [user |-> JsNull, token |-> removeItem, userKey |-> removeItem]

SetSession(s) ==
    /\ user' = s.user
    /\ lsToken' = s.token
    /\ lsUser' = s.userKey

loginIssue ==
    /\ mounted /\ ~loading
    /\ authReq.login < MaxAuthReq
    /\ authReq' = [authReq EXCEPT !.login = @ + 1]
    /\ lastOp' = [op |-> "loginIssue", ret |-> FALSE, wf |-> FALSE, st |-> 0]
    /\ UNCHANGED <<mutReq, searchVars, apiVars>>
    /\ UNCHANGED <<user, loading, lsToken, lsUser, lsQa, route, mounted,
                   dashVars, editVars, qaVars>>

loginResolve(outcome, body) ==
    /\ authReq.login > 0
    /\ authReq' = [authReq EXCEPT !.login = @ - 1]
    /\ LET s == IF outcome = "ok" THEN loginSuccess(Session, body)
                ELSE loginFailure(Session)
       IN  /\ SetSession(s)
           /\ GoTo(route, route, loading, s.user)
    /\ lastOp' = [op |-> "login", ret |-> (outcome = "ok"),
                 wf |-> (outcome = "ok" /\ WellFormed(body)), st |-> 0]
    /\ UNCHANGED <<loading, mounted>>

registerIssue ==
    /\ mounted /\ ~loading
    /\ authReq.register < MaxAuthReq
    /\ authReq' = [authReq EXCEPT !.register = @ + 1]
    /\ lastOp' = [op |-> "registerIssue", ret |-> FALSE, wf |-> FALSE, st |-> 0]
    /\ UNCHANGED <<mutReq, searchVars, apiVars>>
    /\ UNCHANGED <<user, loading, lsToken, lsUser, lsQa, route, mounted,
                   dashVars, editVars, qaVars>>

registerResolve(outcome) ==
    /\ authReq.register > 0
    /\ authReq' = [authReq EXCEPT !.register = @ - 1]
    /\ LET s == registerDone(Session, outcome)
       IN  /\ SetSession(s)
           /\ GoTo(route, route, loading, s.user)
    /\ lastOp' = [op |-> "register", ret |-> (outcome \in {"ok", "okBadBody"}),
                 wf |-> FALSE, st |-> 0]
    /\ UNCHANGED <<loading, mounted>>

\* Navbar.handleLogout: logout(); navigate('/login').  The Navbar renders
\* the button only inside a screen that shows content.
handleLogout ==
    /\ Rendered
    /\ SetSession(logout(Session))
    /\ GoTo(route, "/login", loading, JsNull)
    /\ lastOp' = [op |-> "logout", ret |-> FALSE, wf |-> FALSE, st |-> 0]
    /\ UNCHANGED <<loading, mounted, authReq>>

\* Links of the Navbar, of the Dashboard (Add Document, the cards' edit
\* links) and of AddEditDoc (back to the dashboard).
NavTargets ==
    {"/dashboard", "/add-doc", "/search", "/qa"}
    \cup (IF Comp(route) = "Dashboard"
          THEN {r \in Routes : \E i \in 1..Len(documents) :
                                  IdOf(r) = documents[i].id}
          ELSE {})

Navigate(r) ==
    /\ Rendered
    /\ r \in NavTargets
    /\ r # route
    /\ CanGo(route, r)
    /\ GoTo(route, r, loading, user)
    /\ lastOp' = [op |-> "navigate", ret |-> FALSE, wf |-> FALSE, st |-> 0]
    /\ UNCHANGED authVars
    /\ UNCHANGED mounted

\* The page is loaded again at location r: memory is reset, outstanding
\* requests are aborted by the browser, localStorage is kept.
Reload(r) ==
    /\ mounted
    /\ user' = JsNull
    /\ loading' = TRUE
    /\ route' = r
    /\ mounted' = FALSE
    /\ authReq' = [login |-> 0, register |-> 0]
    /\ lastOp' = [op |-> "reload", ret |-> FALSE, wf |-> FALSE, st |-> 0]
    /\ documents' = <<>> /\ allTags' = <<>> /\ isLoading' = TRUE
    /\ docsReq' = <<>>
    /\ title' = <<>> /\ content' = <<>> /\ tags' = <<>>
    /\ isLoadingDoc' = FALSE /\ docReq' = <<>>
    /\ newTag' = <<>> /\ isSubmitting' = FALSE /\ isGeneratingTags' = FALSE
    /\ submitReq' = <<>>
    /\ messages' = <<>> /\ currentQuestion' = <<>> /\ isAsking' = FALSE
    /\ askReq' = <<>>
    /\ searchQuery' = <<>> /\ selectedTags' = <<>>
    /\ filteredDocuments' = <<>> /\ mutReq' = <<>>
    /\ searchText' = <<>> /\ searchResults' = <<>> /\ isSearching' = FALSE
    /\ recentSearches' = <<>> /\ hasSearched' = FALSE /\ searchReq' = <<>>
    /\ UNCHANGED <<lsToken, lsUser, lsQa, lsRecent, apiVars>>

----------------------------------------------------------------------------
\* Dashboard.  The adapter's view of a response: response.ok.  Status 0
\* stands for a fetch that was rejected without a response.
Statuses == {0, 200, 201, 304, 401, 404, 500}

ResponseOk_Below400(st) == st \in 200..399

ResponseOk(st) == st \in 200..299

\* String.prototype.toLowerCase, on the alphabet of the model
LowerChar(c) == CASE c = "A" -> "a" [] c = "B" -> "b" [] OTHER -> c

toLowerCase(t) == [i \in 1..Len(t) |-> LowerChar(t[i])]

\* String.prototype.includes: the first match found scanning from the left
RECURSIVE includesFrom(_, _, _)
includesFrom(t, q, k) ==
    IF k + Len(q) > Len(t) THEN FALSE
    ELSE IF SubSeq(t, k + 1, k + Len(q)) = q THEN TRUE
    ELSE includesFrom(t, q, k + 1)

includes(t, q) == includesFrom(t, q, 0)

\* Array.prototype.includes on an array of strings
hasItem(l, x) == \E i \in 1..Len(l) : l[i] = x

\* doc.title... || doc.content... || (doc.summary && doc.summary...)
matchesQuery_NoSummary(doc, q) ==
    \/ includes(toLowerCase(doc.title), toLowerCase(q))
    \/ includes(toLowerCase(doc.content), toLowerCase(q))

matchesQuery(doc, q) ==
    \/ includes(toLowerCase(doc.title), toLowerCase(q))
    \/ includes(toLowerCase(doc.content), toLowerCase(q))
    \/ (doc.summary.has /\ doc.summary.text # <<>>
          /\ includes(toLowerCase(doc.summary.text), toLowerCase(q)))

\* selectedTags.some(...) in place of every
matchesTags_Some(doc, sel) == \E i \in 1..Len(sel) : hasItem(doc.tags, sel[i])

\* selectedTags.every(tag => doc.tags.includes(tag))
matchesTags(doc, sel) == \A i \in 1..Len(sel) : hasItem(doc.tags, sel[i])

\* filterDocuments, first step:
\*   if (searchQuery) filtered = filtered.filter(doc => ...)
RECURSIVE filterQuery(_, _)
filterQuery(docs, q) ==
    IF docs = <<>> THEN <<>>
    ELSE (IF matchesQuery(Head(docs), q) THEN <<Head(docs)>> ELSE <<>>)
         \o filterQuery(Tail(docs), q)

byQuery(docs, q) == IF q # <<>> THEN filterQuery(docs, q) ELSE docs

\* filterDocuments, second step:
\*   if (selectedTags.length > 0) filtered = filtered.filter(doc => ...)
RECURSIVE filterTags(_, _)
filterTags(docs, sel) ==
    IF docs = <<>> THEN <<>>
    ELSE (IF matchesTags(Head(docs), sel) THEN <<Head(docs)>> ELSE <<>>)
         \o filterTags(Tail(docs), sel)

byTags(docs, sel) == IF Len(sel) > 0 THEN filterTags(docs, sel) ELSE docs

\* A filter that returns the matching documents last to first
filterDocuments_Reversed(docs, q, sel) ==
    LET f == byTags(byQuery(docs, q), sel)
    IN  [i \in 1..Len(f) |-> f[Len(f) + 1 - i]]

\* filterDocuments: the value it hands to setFilteredDocuments
filterDocuments(docs, q, sel) == byTags(byQuery(docs, q), sel)

\* doc.tags.includes(tag) on a document without tags is a TypeError: thrown
\* inside the filter effect
filterThrows(docs, q, sel) ==
    /\ Len(sel) > 0
    /\ \E i \in 1..Len(byQuery(docs, q)) : ~byQuery(docs, q)[i].hasTags

\* DocCard reads document.tags.length while rendering: a TypeError for a
\* document without tags.  The cards are rendered when the spinner is not.
renderThrows(fd, ld) ==
    /\ ~loading /\ isAuthenticated /\ ~ld
    /\ \E i \in 1..Len(fd) : ~fd[i].hasTags

\* The Dashboard after a handler set its state: the filter effect runs
\* (deps [documents, searchQuery, selectedTags]) and the screen is rendered.
\* An error in either takes the whole tree down.
DashCommit(docs2, tags2, ld2, q2, sel2, reqs2, muts2) ==
    IF \/ filterThrows(docs2, q2, sel2)
       \/ renderThrows(filterDocuments(docs2, q2, sel2), ld2)
    THEN /\ route' = Crashed
         /\ documents' = <<>>
         /\ allTags' = <<>>
         /\ isLoading' = TRUE
         /\ searchQuery' = <<>>
         /\ selectedTags' = <<>>
         /\ filteredDocuments' = <<>>
         /\ docsReq' = Orphaned(reqs2)
         /\ mutReq' = Orphaned(muts2)
    ELSE /\ route' = route
         /\ documents' = docs2
         /\ allTags' = tags2
         /\ isLoading' = ld2
         /\ searchQuery' = q2
         /\ selectedTags' = sel2
         /\ filteredDocuments' = filterDocuments(docs2, q2, sel2)
         /\ docsReq' = reqs2
         /\ mutReq' = muts2

\* doc.tags.forEach(...) throws for a document without tags
tagsThrow(docs) == \E i \in 1..Len(docs) : ~docs[i].hasTags

\* Dashboard.fetchDocuments, after the await, for a response with an ok
\* status.  setDocuments is queued before the tags are read: when reading
\* them throws, the catch branch reports the failure and the list stays
\* replaced.  A request of an unmounted Dashboard changes nothing when it
\* resolves.
\* The outstanding list fetches once the i-th was answered with a list: it
\* is taken out, and the fetches of this Dashboard issued before it are
\* marked as overtaken, their answer being older than the list now cached.
Overtake(reqs, i) ==
    [j \in 1..(Len(reqs) - 1) |->
        IF j < i
        THEN [reqs[j] EXCEPT !.overtaken = reqs[j].live \/ reqs[j].overtaken]
        ELSE reqs[j + 1]]

fetchDocumentsOk(i, st, resp) ==
    /\ i \in 1..Len(docsReq)
    /\ ResponseOk(st)
    /\ IF docsReq[i].live
       THEN DashCommit(Unwrap(resp),
                       IF tagsThrow(Unwrap(resp)) THEN allTags
                       ELSE UniqueTags(<<>>, Unwrap(resp)),
                       FALSE, searchQuery, selectedTags,
                       Overtake(docsReq, i), mutReq)
       ELSE /\ docsReq' = RemoveAt(docsReq, i)
            /\ UNCHANGED <<documents, allTags, isLoading, searchQuery,
                           selectedTags, filteredDocuments, mutReq, route>>
    /\ lastOp' = [op |-> "fetchDocuments", ret |-> ~tagsThrow(Unwrap(resp)),
                  wf |-> FALSE, st |-> st]
    /\ UNCHANGED <<authVars, lsQa, mounted, editVars, qaVars, searchVars,
                   apiVars>>

\* Dashboard.fetchDocuments, after the await, when apiRequest threw
fetchDocumentsFail(i, st) ==
    /\ i \in 1..Len(docsReq)
    /\ ~ResponseOk(st)
    /\ IF docsReq[i].live
       THEN DashCommit(documents, allTags, FALSE, searchQuery, selectedTags,
                       RemoveAt(docsReq, i), mutReq)
       ELSE /\ docsReq' = RemoveAt(docsReq, i)
            /\ UNCHANGED <<documents, allTags, isLoading, searchQuery,
                           selectedTags, filteredDocuments, mutReq, route>>
    /\ lastOp' = [op |-> "fetchDocuments", ret |-> FALSE, wf |-> FALSE,
                  st |-> st]
    /\ UNCHANGED <<authVars, lsQa, mounted, editVars, qaVars, searchVars,
                   apiVars>>

\* The document GET /api/documents/:id answers
DocById(id) == IF id = "d1" THEN D1 ELSE D2

\* A fetchDocument that leaves the tag list as it was
fetchDocumentOk_KeepsTags(i) ==
    /\ i \in 1..Len(docReq)
    /\ docReq' = RemoveAt(docReq, i)
    /\ IF docReq[i].live
       THEN /\ title' = DocById(docReq[i].id).title
            /\ content' = DocById(docReq[i].id).content
            /\ isLoadingDoc' = FALSE
       ELSE UNCHANGED <<title, content, isLoadingDoc>>
    /\ UNCHANGED <<tags, newTag, isSubmitting, isGeneratingTags, submitReq>>
    /\ lastOp' = [op |-> "fetchDocument", ret |-> TRUE, wf |-> FALSE, st |-> 0]
    /\ UNCHANGED <<mutReq, searchVars, apiVars>>
    /\ UNCHANGED <<authVars, lsQa, route, mounted, dashVars, qaVars>>

\* AddEditDoc.fetchDocument, after the await, success
fetchDocumentOk(i) ==
    /\ i \in 1..Len(docReq)
    /\ docReq' = RemoveAt(docReq, i)
    /\ IF docReq[i].live
       THEN /\ title' = DocById(docReq[i].id).title
            /\ content' = DocById(docReq[i].id).content
            /\ tags' = DocById(docReq[i].id).tags
            /\ isLoadingDoc' = FALSE
       ELSE UNCHANGED <<title, content, tags, isLoadingDoc>>
    /\ UNCHANGED <<newTag, isSubmitting, isGeneratingTags, submitReq>>
    /\ lastOp' = [op |-> "fetchDocument", ret |-> TRUE, wf |-> FALSE, st |-> 0]
    /\ UNCHANGED <<mutReq, searchVars, apiVars>>
    /\ UNCHANGED <<authVars, lsQa, route, mounted, dashVars, qaVars>>

\* AddEditDoc.fetchDocument, the catch branch: navigate('/dashboard') runs
\* whether or not the component is still mounted.
fetchDocumentFail(i) ==
    /\ i \in 1..Len(docReq)
    /\ route # Crashed
    /\ CanGo(route, "/dashboard")
    /\ route' = FinalRoute("/dashboard", loading, user)
    /\ DashOnRoute(route, "/dashboard", loading, user)
    /\ QaOnRoute(route, "/dashboard", loading, user)
    /\ SearchOnRoute(route, "/dashboard", loading, user)
    /\ CardsOnRoute(route, "/dashboard", loading, user)
    /\ UNCHANGED apiVars
    /\ title' = <<>> /\ content' = <<>> /\ tags' = <<>>
    /\ isLoadingDoc' = FALSE
    /\ docReq' = Orphaned(RemoveAt(docReq, i))
    /\ newTag' = <<>> /\ isSubmitting' = FALSE /\ isGeneratingTags' = FALSE
    /\ submitReq' = Orphaned(submitReq)
    /\ lastOp' = [op |-> "fetchDocument", ret |-> FALSE, wf |-> FALSE, st |-> 0]
    /\ UNCHANGED <<authVars, mounted>>

----------------------------------------------------------------------------
\* Q&A screen.

\* String.prototype.trim on a sequence of characters
RECURSIVE TrimLeft(_)
TrimLeft(t) == IF t # <<>> /\ Head(t) = " " THEN TrimLeft(Tail(t)) ELSE t

RECURSIVE TrimRight(_)
TrimRight(t) ==
    IF t # <<>> /\ t[Len(t)] = " " THEN TrimRight(SubSeq(t, 1, Len(t) - 1))
    ELSE t

Trim(t) == TrimRight(TrimLeft(t))

questionMessage(q) ==
    [type |-> "question", content |-> q, timestamp |-> "Date",
     sources |-> NoSources]

\* response.answer || '...', response.sources || []
answerMessage(resp) ==
    [type |-> "answer",
     content |-> (IF resp.answer # <<>> THEN resp.answer ELSE
          <<"I apologize, but I couldn't find relevant information to answer your question.">>),
     timestamp |-> "Date",
     sources |-> (IF resp.sources.has THEN resp.sources ELSE Sources(<<>>))]

errorMessage ==
    [type |-> "answer",
     content |->
       <<"Sorry, I encountered an error while processing your question. Please try again.">>,
     timestamp |-> "Date",
     sources |-> NoSources]

\* onChange of the question box (disabled while asking) and the suggested
\* questions (shown while the transcript is empty)
setCurrentQuestion(t) ==
    /\ Rendered /\ route = "/qa"
    /\ ~isAsking \/ Len(messages) = 0
    /\ t # currentQuestion
    /\ currentQuestion' = t
    /\ lastOp' = [op |-> "setCurrentQuestion", ret |-> FALSE, wf |-> FALSE, st |-> 0]
    /\ UNCHANGED <<mutReq, searchVars, apiVars>>
    /\ UNCHANGED <<authVars, lsQa, route, mounted, dashVars, editVars,
                   messages, isAsking, askReq>>

\* handleAskQuestion, lines 78-80: the call returns at once
askRejected ==
    /\ Rendered /\ route = "/qa"
    /\ Trim(currentQuestion) = <<>> \/ isAsking
    /\ lastOp' = [op |-> "ask", ret |-> FALSE, wf |-> FALSE, st |-> 0]
    /\ UNCHANGED <<mutReq, searchVars, apiVars>>
    /\ UNCHANGED <<authVars, lsQa, route, mounted, dashVars, editVars,
                   qaVars>>

\* handleAskQuestion, lines 82-97: up to the await, with the save effect
\* of the render that follows
askAccepted ==
    /\ Rendered /\ route = "/qa"
    /\ ~(Trim(currentQuestion) = <<>> \/ isAsking)
    /\ Len(messages) + 2 <= MaxMsgs
    /\ Len(askReq) < MaxAskReq
    /\ currentQuestion' = <<>>
    /\ isAsking' = TRUE
    /\ messages' = Append(messages, questionMessage(Trim(currentQuestion)))
    /\ lsQa' = SaveHistory(lsQa, messages')
    /\ askReq' = Append(askReq, [live |-> TRUE, id |-> ""])
    /\ lastOp' = [op |-> "ask", ret |-> TRUE, wf |-> FALSE, st |-> 0]
    /\ UNCHANGED <<mutReq, searchVars, apiVars>>
    /\ UNCHANGED <<authVars, route, mounted, dashVars, editVars>>

\* handleAskQuestion, lines 99-132: after the await.  entry is the
\* answerMessage of the response or the errorMessage of the catch branch.
askResolve(i, entry) ==
    /\ i \in 1..Len(askReq)
    /\ askReq' = RemoveAt(askReq, i)
    /\ IF askReq[i].live
       THEN /\ messages' = Append(messages, entry)
            /\ lsQa' = SaveHistory(lsQa, messages')
            /\ isAsking' = FALSE
       ELSE UNCHANGED <<messages, lsQa, isAsking>>
    /\ lastOp' = [op |-> "askResolve", ret |-> askReq[i].live, wf |-> FALSE, st |-> 0]
    /\ UNCHANGED <<mutReq, searchVars, apiVars>>
    /\ UNCHANGED <<authVars, route, mounted, dashVars, editVars,
                   currentQuestion>>

\* A clearHistory that empties the transcript in memory only
clearHistory_KeepsStored ==
    /\ Rendered /\ route = "/qa"
    /\ Len(messages) > 0
    /\ messages' = <<>>
    /\ lsQa' = lsQa
    /\ lastOp' = [op |-> "clearHistory", ret |-> FALSE, wf |-> FALSE, st |-> 0]
    /\ UNCHANGED <<mutReq, searchVars, apiVars>>
    /\ UNCHANGED <<authVars, route, mounted, dashVars, editVars,
                   currentQuestion, isAsking, askReq>>

\* clearHistory; the button is rendered while the transcript is not empty
clearHistory ==
    /\ Rendered /\ route = "/qa"
    /\ Len(messages) > 0
    /\ messages' = <<>>
    /\ lsQa' = QaAbsent
    /\ lastOp' = [op |-> "clearHistory", ret |-> FALSE, wf |-> FALSE, st |-> 0]
    /\ UNCHANGED <<mutReq, searchVars, apiVars>>
    /\ UNCHANGED <<authVars, route, mounted, dashVars, editVars,
                   currentQuestion, isAsking, askReq>>

----------------------------------------------------------------------------
\* Dashboard: the filter inputs.  Each handler is followed by the filter
\* effect and the render of the cards.
setSearchQuery(t) ==
    /\ Rendered /\ route = "/dashboard"
    /\ DashCommit(documents, allTags, isLoading, t, selectedTags, docsReq,
                  mutReq)
    /\ lastOp' = [op |-> "setSearchQuery", ret |-> FALSE, wf |-> FALSE,
                  st |-> 0]
    /\ UNCHANGED <<authVars, lsQa, mounted, editVars, qaVars, searchVars,
                   apiVars>>

\* selectedTags.filter(t => t !== tag)
RECURSIVE without(_, _)
without(l, x) ==
    IF l = <<>> THEN <<>>
    ELSE (IF Head(l) # x THEN <<Head(l)>> ELSE <<>>) \o without(Tail(l), x)

\* handleTagSelect; the chips are those of allTags
handleTagSelect(tag) ==
    /\ Rendered /\ route = "/dashboard"
    /\ hasItem(allTags, tag)
    /\ DashCommit(documents, allTags, isLoading, searchQuery,
                  IF hasItem(selectedTags, tag) THEN without(selectedTags, tag)
                  ELSE Append(selectedTags, tag),
                  docsReq, mutReq)
    /\ lastOp' = [op |-> "handleTagSelect", ret |-> FALSE, wf |-> FALSE,
                  st |-> 0]
    /\ UNCHANGED <<authVars, lsQa, mounted, editVars, qaVars, searchVars,
                   apiVars>>

clearFilters ==
    /\ Rendered /\ route = "/dashboard"
    /\ DashCommit(documents, allTags, isLoading, <<>>, <<>>, docsReq, mutReq)
    /\ lastOp' = [op |-> "clearFilters", ret |-> FALSE, wf |-> FALSE,
                  st |-> 0]
    /\ UNCHANGED <<authVars, lsQa, mounted, editVars, qaVars, searchVars,
                   apiVars>>

----------------------------------------------------------------------------
\* DocCard: delete, summarize and generate tags.  The Dashboard renders its
\* cards with onUpdate={fetchDocuments}, the Search screen renders the cards
\* of its results without onUpdate.
MaxMutReq == 1

\* Card actions outstanding at once (one per button of each card), and list
\* fetches outstanding at once while the Dashboard stays mounted.
MaxCards == 2

MaxRefresh == 2

MutKinds == {"delete", "summarize", "generateTags"}

\* handleDelete (after window.confirm) / handleSummarize /
\* handleGenerateTags, up to the await
mutateIssue(origin, kind) ==
    /\ Rendered
    /\ \/ /\ origin = "Dashboard"
          /\ route = "/dashboard" /\ ~isLoading /\ filteredDocuments # <<>>
       \/ /\ origin = "Search"
          /\ route = "/search" /\ hasSearched /\ searchResults # <<>>
    /\ Len(mutReq) < MaxCards
    /\ mutReq' = Append(mutReq, [live |-> TRUE, origin |-> origin,
                                 kind |-> kind])
    /\ lastOp' = [op |-> "mutateIssue", ret |-> FALSE, wf |-> FALSE, st |-> 0]
    /\ UNCHANGED <<authVars, lsQa, route, mounted, dashVars, editVars, qaVars,
                   searchVars, apiVars>>

\* after the await, ok status: toast, then onUpdate?.() which is
\* fetchDocuments up to its await for a card of the Dashboard and nothing
\* for a card of the Search screen
mutateOk(i, st) ==
    /\ i \in 1..Len(mutReq)
    /\ ResponseOk(st)
    /\ IF mutReq[i].origin = "Dashboard"
       THEN /\ Len(docsReq) < MaxRefresh
            /\ IF mutReq[i].live
               THEN DashCommit(documents, allTags, TRUE, searchQuery,
                               selectedTags,
                               Append(docsReq, [live |-> TRUE, overtaken |-> FALSE]),
                               RemoveAt(mutReq, i))
               ELSE /\ docsReq' = Append(docsReq,
                                        [live |-> FALSE, overtaken |-> FALSE])
                    /\ mutReq' = RemoveAt(mutReq, i)
                    /\ UNCHANGED <<documents, allTags, isLoading, searchQuery,
                                   selectedTags, filteredDocuments, route>>
       ELSE /\ mutReq' = RemoveAt(mutReq, i)
            /\ UNCHANGED <<dashVars, route>>
    /\ lastOp' = [op |-> "mutate", ret |-> TRUE, wf |-> FALSE, st |-> st]
    /\ UNCHANGED <<authVars, lsQa, mounted, editVars, qaVars, searchVars,
                   apiVars>>

\* after the await, apiRequest threw: the catch branch shows a toast
mutateFail(i, st) ==
    /\ i \in 1..Len(mutReq)
    /\ ~ResponseOk(st)
    /\ mutReq' = RemoveAt(mutReq, i)
    /\ lastOp' = [op |-> "mutate", ret |-> FALSE, wf |-> FALSE, st |-> st]
    /\ UNCHANGED <<authVars, lsQa, route, mounted, dashVars, editVars, qaVars,
                   searchVars, apiVars>>

----------------------------------------------------------------------------
\* Search screen.  The search mode is only forwarded to the backend and is
\* not modelled.
MaxSearchReq == 2

\* onChange of the search input
setSearchText(t) ==
    /\ Rendered /\ route = "/search"
    /\ searchText' = t
    /\ lastOp' = [op |-> "setSearchText", ret |-> FALSE, wf |-> FALSE,
                  st |-> 0]
    /\ UNCHANGED <<searchResults, isSearching, recentSearches, hasSearched,
                   lsRecent, searchReq>>
    /\ UNCHANGED <<authVars, lsQa, route, mounted, dashVars, editVars, qaVars,
                   mutReq, apiVars>>

\* handleRecentSearch(query): the entries are shown while nothing has been
\* searched.  The requestSubmit() of its timer is a handleSearch step.
handleRecentSearch(k) ==
    /\ Rendered /\ route = "/search"
    /\ ~hasSearched
    /\ k \in 1..Len(recentSearches)
    /\ searchText' = recentSearches[k]
    /\ lastOp' = [op |-> "handleRecentSearch", ret |-> FALSE, wf |-> FALSE,
                  st |-> 0]
    /\ UNCHANGED <<searchResults, isSearching, recentSearches, hasSearched,
                   lsRecent, searchReq>>
    /\ UNCHANGED <<authVars, lsQa, route, mounted, dashVars, editVars, qaVars,
                   mutReq, apiVars>>

\* handleSearch, if (!searchQuery.trim()) return
handleSearchEmpty ==
    /\ Rendered /\ route = "/search"
    /\ Trim(searchText) = <<>>
    /\ lastOp' = [op |-> "handleSearch", ret |-> FALSE, wf |-> FALSE,
                  st |-> 0]
    /\ UNCHANGED <<authVars, lsQa, route, mounted, dashVars, editVars, qaVars,
                   mutReq, searchVars, apiVars>>

\* handleSearch up to the await.  The request keeps the query and the
\* recent list of the render it was started from.
handleSearch ==
    /\ Rendered /\ route = "/search"
    /\ Trim(searchText) # <<>>
    /\ Len(searchReq) < MaxSearchReq
    /\ isSearching' = TRUE
    /\ hasSearched' = TRUE
    /\ searchReq' = Append(searchReq, [live |-> TRUE, query |-> searchText,
                                       recent |-> recentSearches])
    /\ lastOp' = [op |-> "handleSearch", ret |-> TRUE, wf |-> FALSE, st |-> 0]
    /\ UNCHANGED <<searchText, searchResults, recentSearches, lsRecent>>
    /\ UNCHANGED <<authVars, lsQa, route, mounted, dashVars, editVars, qaVars,
                   mutReq, apiVars>>

\* .slice(0, n)
slice(l, n) == SubSeq(l, 1, IF Len(l) < n THEN Len(l) ELSE n)

\* An updatedRecent that appends the query without removing its old entry
updatedRecent_NoDedup(recent, q) == slice(<<q>> \o recent, RecentLimit)

\* [searchQuery, ...recentSearches.filter(s => s !== searchQuery)].slice(0, 5)
updatedRecent(recent, q) == slice(<<q>> \o without(recent, q), RecentLimit)

\* A failing search that clears the results
searchFail_Clears(i, st) ==
    /\ i \in 1..Len(searchReq)
    /\ ~ResponseOk(st)
    /\ searchReq' = RemoveAt(searchReq, i)
    /\ isSearching' = (IF searchReq[i].live THEN FALSE ELSE isSearching)
    /\ searchResults' = (IF searchReq[i].live THEN <<>> ELSE searchResults)
    /\ lastOp' = [op |-> "search", ret |-> FALSE, wf |-> FALSE, st |-> st]
    /\ UNCHANGED <<searchText, recentSearches, hasSearched, lsRecent>>
    /\ UNCHANGED <<authVars, lsQa, route, mounted, dashVars, editVars, qaVars,
                   mutReq, apiVars>>

\* handleSearch after the await, apiRequest threw: toast, then finally
searchFail(i, st) ==
    /\ i \in 1..Len(searchReq)
    /\ ~ResponseOk(st)
    /\ searchReq' = RemoveAt(searchReq, i)
    /\ isSearching' = (IF searchReq[i].live THEN FALSE ELSE isSearching)
    /\ lastOp' = [op |-> "search", ret |-> FALSE, wf |-> FALSE, st |-> st]
    /\ UNCHANGED <<searchText, searchResults, recentSearches, hasSearched,
                   lsRecent>>
    /\ UNCHANGED <<authVars, lsQa, route, mounted, dashVars, editVars, qaVars,
                   mutReq, apiVars>>

\* handleSearch after the await, ok status.  The setState calls of an
\* unmounted screen are dropped, localStorage.setItem is not.
searchOk(i, st, resp) ==
    /\ i \in 1..Len(searchReq)
    /\ ResponseOk(st)
    /\ searchReq' = RemoveAt(searchReq, i)
    /\ lsRecent' = StringifyRecent(updatedRecent(searchReq[i].recent,
                                                 searchReq[i].query))
    /\ IF searchReq[i].live
       THEN /\ searchResults' = Unwrap(resp)
            /\ recentSearches' = updatedRecent(searchReq[i].recent,
                                               searchReq[i].query)
            /\ isSearching' = FALSE
       ELSE UNCHANGED <<searchResults, recentSearches, isSearching>>
    /\ lastOp' = [op |-> "search", ret |-> TRUE, wf |-> FALSE, st |-> st]
    /\ UNCHANGED <<searchText, hasSearched>>
    /\ UNCHANGED <<authVars, lsQa, route, mounted, dashVars, editVars, qaVars,
                   mutReq, apiVars>>

\* clearSearch; the button is rendered once a search was started
clearSearch ==
    /\ Rendered /\ route = "/search"
    /\ hasSearched
    /\ searchText' = <<>>
    /\ searchResults' = <<>>
    /\ hasSearched' = FALSE
    /\ lastOp' = [op |-> "clearSearch", ret |-> FALSE, wf |-> FALSE, st |-> 0]
    /\ UNCHANGED <<isSearching, recentSearches, lsRecent, searchReq>>
    /\ UNCHANGED <<authVars, lsQa, route, mounted, dashVars, editVars, qaVars,
                   mutReq, apiVars>>

----------------------------------------------------------------------------
\* AddEditDoc: the form.  It is rendered once the session is known and the
\* document, if any, is no longer loading.
MaxSubmitReq == 1

FormShown == Rendered /\ Comp(route) = "AddEditDoc" /\ ~isLoadingDoc

\* the string of a sequence of characters
RECURSIVE Join(_)
Join(t) == IF t = <<>> THEN "" ELSE Head(t) \o Join(Tail(t))

\* onChange of the title, content and new-tag inputs
setTitle(t) ==
    /\ FormShown
    /\ title' = t
    /\ lastOp' = [op |-> "setTitle", ret |-> FALSE, wf |-> FALSE, st |-> 0]
    /\ UNCHANGED <<content, tags, isLoadingDoc, docReq, newTag, isSubmitting,
                   isGeneratingTags, submitReq>>
    /\ UNCHANGED <<authVars, lsQa, route, mounted, dashVars, qaVars, mutReq,
                   searchVars, apiVars>>

setContent(t) ==
    /\ FormShown
    /\ content' = t
    /\ lastOp' = [op |-> "setContent", ret |-> FALSE, wf |-> FALSE, st |-> 0]
    /\ UNCHANGED <<title, tags, isLoadingDoc, docReq, newTag, isSubmitting,
                   isGeneratingTags, submitReq>>
    /\ UNCHANGED <<authVars, lsQa, route, mounted, dashVars, qaVars, mutReq,
                   searchVars, apiVars>>

setNewTag(t) ==
    /\ FormShown
    /\ newTag' = t
    /\ lastOp' = [op |-> "setNewTag", ret |-> FALSE, wf |-> FALSE, st |-> 0]
    /\ UNCHANGED <<title, content, tags, isLoadingDoc, docReq, isSubmitting,
                   isGeneratingTags, submitReq>>
    /\ UNCHANGED <<authVars, lsQa, route, mounted, dashVars, qaVars, mutReq,
                   searchVars, apiVars>>

\* newTag.trim().toLowerCase()
trimmedTag(t) == Join(toLowerCase(Trim(t)))

\* An addTag that compares the input as typed with the list
addTag_RawCompare(ts, t) ==
    IF trimmedTag(t) # "" /\ ~hasItem(ts, Join(t))
    THEN Append(ts, trimmedTag(t)) ELSE ts

\* handleAddTag: the list it leaves
\*   if (trimmedTag && !tags.includes(trimmedTag)) setTags([...tags, trimmedTag])
addTag(ts, t) ==
    IF trimmedTag(t) # "" /\ ~hasItem(ts, trimmedTag(t))
    THEN Append(ts, trimmedTag(t)) ELSE ts

\* handleAddTag; the input is cleared when the tag was added
handleAddTag ==
    /\ FormShown
    /\ tags' = addTag(tags, newTag)
    /\ newTag' = (IF addTag(tags, newTag) # tags THEN <<>> ELSE newTag)
    /\ lastOp' = [op |-> "handleAddTag", ret |-> addTag(tags, newTag) # tags,
                  wf |-> FALSE, st |-> 0]
    /\ UNCHANGED <<title, content, isLoadingDoc, docReq, isSubmitting,
                   isGeneratingTags, submitReq>>
    /\ UNCHANGED <<authVars, lsQa, route, mounted, dashVars, qaVars, mutReq,
                   searchVars, apiVars>>

\* handleRemoveTag(tagToRemove), from the chip of a tag of the list
handleRemoveTag(tag) ==
    /\ FormShown
    /\ hasItem(tags, tag)
    /\ tags' = without(tags, tag)
    /\ lastOp' = [op |-> "handleRemoveTag", ret |-> FALSE, wf |-> FALSE,
                  st |-> 0]
    /\ UNCHANGED <<title, content, isLoadingDoc, docReq, newTag, isSubmitting,
                   isGeneratingTags, submitReq>>
    /\ UNCHANGED <<authVars, lsQa, route, mounted, dashVars, qaVars, mutReq,
                   searchVars, apiVars>>

mockTags == <<"ai-generated", "knowledge", "documentation">>

\* mockTags.filter(tag => !tags.includes(tag))
RECURSIVE newGeneratedTags(_, _)
newGeneratedTags(ms, ts) ==
    IF ms = <<>> THEN <<>>
    ELSE (IF ~hasItem(ts, Head(ms)) THEN <<Head(ms)>> ELSE <<>>)
         \o newGeneratedTags(Tail(ms), ts)

\* handleGenerateTags: it awaits nothing, so isGeneratingTags is set and
\* reset within the handler; the button is disabled while the content is
\* blank.
handleGenerateTags ==
    /\ FormShown
    /\ Trim(content) # <<>>
    /\ tags' = tags \o newGeneratedTags(mockTags, tags)
    /\ isGeneratingTags' = FALSE
    /\ lastOp' = [op |-> "handleGenerateTags",
                  ret |-> newGeneratedTags(mockTags, tags) # <<>>,
                  wf |-> FALSE, st |-> 0]
    /\ UNCHANGED <<title, content, isLoadingDoc, docReq, newTag, isSubmitting,
                   submitReq>>
    /\ UNCHANGED <<authVars, lsQa, route, mounted, dashVars, qaVars, mutReq,
                   searchVars, apiVars>>

\* handleSubmit, the validation branch; the submit button is disabled while
\* submitting
handleSubmitInvalid ==
    /\ FormShown
    /\ ~isSubmitting
    /\ Trim(title) = <<>> \/ Trim(content) = <<>>
    /\ lastOp' = [op |-> "handleSubmit", ret |-> FALSE, wf |-> FALSE, st |-> 0]
    /\ UNCHANGED <<authVars, lsQa, route, mounted, dashVars, editVars, qaVars,
                   mutReq, searchVars, apiVars>>

\* A submit without the validation
handleSubmit_NoValidation ==
    /\ FormShown
    /\ ~isSubmitting
    /\ Len(submitReq) < MaxSubmitReq
    /\ isSubmitting' = TRUE
    /\ submitReq' = Append(submitReq,
          [live |-> TRUE,
           kind |-> IF IdOf(route) # "" THEN "update" ELSE "create",
           id |-> IdOf(route),
           title |-> Trim(title), content |-> Trim(content), tags |-> tags])
    /\ lastOp' = [op |-> "handleSubmit", ret |-> TRUE, wf |-> FALSE, st |-> 0]
    /\ UNCHANGED <<title, content, tags, isLoadingDoc, docReq, newTag,
                   isGeneratingTags>>
    /\ UNCHANGED <<authVars, lsQa, route, mounted, dashVars, qaVars, mutReq,
                   searchVars, apiVars>>

\* A submit that sends the tag list the form was opened with
handleSubmit_NoTags ==
    /\ FormShown
    /\ ~isSubmitting
    /\ Trim(title) # <<>> /\ Trim(content) # <<>>
    /\ Len(submitReq) < MaxSubmitReq
    /\ isSubmitting' = TRUE
    /\ submitReq' = Append(submitReq,
          [live |-> TRUE,
           kind |-> IF IdOf(route) # "" THEN "update" ELSE "create",
           id |-> IdOf(route),
           title |-> Trim(title), content |-> Trim(content), tags |-> <<>>])
    /\ lastOp' = [op |-> "handleSubmit", ret |-> TRUE, wf |-> FALSE, st |-> 0]
    /\ UNCHANGED <<title, content, tags, isLoadingDoc, docReq, newTag,
                   isGeneratingTags>>
    /\ UNCHANGED <<authVars, lsQa, route, mounted, dashVars, qaVars, mutReq,
                   searchVars, apiVars>>

\* handleSubmit up to the await: docData = {title.trim(), content.trim(),
\* tags}, sent by update(id, docData) when isEditing && id and by
\* create(docData) otherwise
handleSubmit ==
    /\ FormShown
    /\ ~isSubmitting
    /\ Trim(title) # <<>> /\ Trim(content) # <<>>
    /\ Len(submitReq) < MaxSubmitReq
    /\ isSubmitting' = TRUE
    /\ submitReq' = Append(submitReq,
          [live |-> TRUE,
           kind |-> IF IdOf(route) # "" THEN "update" ELSE "create",
           id |-> IdOf(route),
           title |-> Trim(title), content |-> Trim(content), tags |-> tags])
    /\ lastOp' = [op |-> "handleSubmit", ret |-> TRUE, wf |-> FALSE, st |-> 0]
    /\ UNCHANGED <<title, content, tags, isLoadingDoc, docReq, newTag,
                   isGeneratingTags>>
    /\ UNCHANGED <<authVars, lsQa, route, mounted, dashVars, qaVars, mutReq,
                   searchVars, apiVars>>

\* handleSubmit after the await, ok status: toast, navigate('/dashboard'),
\* which runs whether or not the form is still mounted; the
\* setIsSubmitting(false) of finally then meets an unmounted form.
submitOk(i, st) ==
    /\ i \in 1..Len(submitReq)
    /\ ResponseOk(st)
    /\ route # Crashed
    /\ CanGo(route, "/dashboard")
    /\ route' = FinalRoute("/dashboard", loading, user)
    /\ DashOnRoute(route, "/dashboard", loading, user)
    /\ QaOnRoute(route, "/dashboard", loading, user)
    /\ SearchOnRoute(route, "/dashboard", loading, user)
    /\ CardsOnRoute(route, "/dashboard", loading, user)
    /\ title' = <<>> /\ content' = <<>> /\ tags' = <<>>
    /\ isLoadingDoc' = FALSE
    /\ docReq' = Orphaned(docReq)
    /\ newTag' = <<>> /\ isSubmitting' = FALSE /\ isGeneratingTags' = FALSE
    /\ submitReq' = Orphaned(RemoveAt(submitReq, i))
    /\ lastOp' = [op |-> "submit", ret |-> TRUE, wf |-> FALSE, st |-> st]
    /\ UNCHANGED <<authVars, mounted, apiVars>>

\* A failing submit that empties the form
submitFail_Clears(i, st) ==
    /\ i \in 1..Len(submitReq)
    /\ ~ResponseOk(st)
    /\ submitReq' = RemoveAt(submitReq, i)
    /\ isSubmitting' = (IF submitReq[i].live THEN FALSE ELSE isSubmitting)
    /\ title' = (IF submitReq[i].live THEN <<>> ELSE title)
    /\ lastOp' = [op |-> "submit", ret |-> FALSE, wf |-> FALSE, st |-> st]
    /\ UNCHANGED <<content, tags, isLoadingDoc, docReq, newTag,
                   isGeneratingTags>>
    /\ UNCHANGED <<authVars, lsQa, route, mounted, dashVars, qaVars, mutReq,
                   searchVars, apiVars>>

\* handleSubmit after the await, apiRequest threw: toast, then finally
submitFail(i, st) ==
    /\ i \in 1..Len(submitReq)
    /\ ~ResponseOk(st)
    /\ submitReq' = RemoveAt(submitReq, i)
    /\ isSubmitting' = (IF submitReq[i].live THEN FALSE ELSE isSubmitting)
    /\ lastOp' = [op |-> "submit", ret |-> FALSE, wf |-> FALSE, st |-> st]
    /\ UNCHANGED <<title, content, tags, isLoadingDoc, docReq, newTag,
                   isGeneratingTags>>
    /\ UNCHANGED <<authVars, lsQa, route, mounted, dashVars, qaVars, mutReq,
                   searchVars, apiVars>>

----------------------------------------------------------------------------
\* Session store with the router and the screens' mount effects.
Next ==
    \/ MountEffects
    \/ bootstrap
    \/ loginIssue
    \/ \E b \in LoginBodies : loginResolve("ok", b)
    \/ \E o \in Outcomes \ {"ok"} : loginResolve(o, [token |-> JsUndef, user |-> JsUndef])
    \/ registerIssue
    \/ \E o \in Outcomes : registerResolve(o)
    \/ handleLogout
    \/ \E r \in Routes : Navigate(r)
    \/ \E r \in Routes : Reload(r)
    \/ \E i \in 1..MaxDocsReq, resp \in ListResponses :
          fetchDocumentsOk(i, 200, resp)
    \/ \E i \in 1..MaxDocsReq : fetchDocumentsFail(i, 500)
    \/ \E i \in 1..MaxDocReq : fetchDocumentOk(i)
    \/ \E i \in 1..MaxDocReq : fetchDocumentFail(i)

Spec == Init /\ [][Next]_vars

----------------------------------------------------------------------------
\* The Q&A screen under a session of the documented shape: the user asks,
\* clears, leaves for the search screen and comes back, logs out and in,
\* and reloads the page, while ask requests are outstanding.
QaRoutes == {"/qa", "/search"}

InitQA ==
    /\ Init
    /\ lsToken = Str("t1")
    /\ lsUser = Str("{u1}")
    /\ route = "/qa"

NextQA ==
    \/ MountEffects
    \/ bootstrap
    \/ \E t \in {<<>>, <<" ">>, <<"a">>, <<" ", "b", " ">>} : setCurrentQuestion(t)
    \/ askRejected
    \/ askAccepted
    \/ \E i \in 1..MaxAskReq, resp \in
            {[answer |-> <<"x">>, sources |-> Sources(<<"doc1">>)],
             [answer |-> <<"y">>, sources |-> NoSources],
             [answer |-> <<>>, sources |-> NoSources]} :
          askResolve(i, answerMessage(resp))
    \/ \E i \in 1..MaxAskReq : askResolve(i, errorMessage)
    \/ clearHistory
    \/ handleLogout
    \/ loginIssue
    \/ loginResolve("ok", [token |-> Str("t1"), user |-> Obj("u1")])
    \/ \E r \in QaRoutes : Navigate(r)
    \/ \E r \in QaRoutes : Reload(r)

SpecQA == InitQA /\ [][NextQA]_vars

----------------------------------------------------------------------------
\* The Dashboard under a session of the documented shape: the list is
\* fetched, filtered by text and tags, its cards are used, the user leaves
\* for the search screen and comes back or reloads the page.  Responses are
\* handled once the first commit has finished.
DashRoutes == {"/dashboard", "/search"}

NextDash ==
    \/ MountEffects
    \/ bootstrap
    \/ \E i \in 1..MaxDocsReq, st \in Statuses, resp \in (ListResponses \cup
              {[wrapped |-> FALSE,
                docs |-> <<[id |-> "d3", title |-> <<"x", "y">>,
                            content |-> <<"b">>, tags |-> <<>>,
                            hasTags |-> FALSE, summary |-> NoSummary],
                           D2, D1>>]}) :
          ~loading /\ fetchDocumentsOk(i, st, resp)
    \/ \E i \in 1..MaxDocsReq, st \in Statuses : fetchDocumentsFail(i, st)
    \/ \E t \in {<<>>, <<"a">>, <<"A", "B">>, <<"x">>, <<"y">>} : setSearchQuery(t)
    \/ \E tag \in {"t", "u"} : handleTagSelect(tag)
    \/ clearFilters
    \/ \E kind \in MutKinds :
          Len(mutReq) < MaxMutReq /\ mutateIssue("Dashboard", kind)
    \/ \E i \in 1..MaxMutReq, st \in Statuses :
          Len(docsReq) < MaxDocsReq /\ mutateOk(i, st)
    \/ \E i \in 1..MaxMutReq, st \in Statuses : mutateFail(i, st)
    \/ \E r \in DashRoutes : Navigate(r)
    \/ \E r \in DashRoutes : Reload(r)

SpecDash == InitAt({"/dashboard"}) /\ [][NextDash]_vars

----------------------------------------------------------------------------
\* The Search screen under a session of the documented shape: the user
\* types, searches (also while a search is outstanding, through the timer
\* of handleRecentSearch), clears, leaves for the Q&A screen and comes back
\* or reloads the page.  The stored list is absent, unreadable, or the full
\* list an earlier visit left; of the recent entries the user clicks the
\* newest, the others are typed.
SearchRoutes == {"/search", "/qa"}

InitSearch ==
    /\ \E recent \in
            {RecentAbsent, [kind |-> "corrupt", list |-> <<>>],
             StringifyRecent(<<<<"a">>, <<"b">>, <<"c">>, <<"d">>, <<"e">>>>)} :
          InitWith(recent)
    /\ lsToken = Str("t1")
    /\ lsUser = Str("{u1}")
    /\ lsQa = QaAbsent
    /\ route = "/search"

NextSearch ==
    \/ MountEffects
    \/ bootstrap
    \/ \E t \in {<<" ">>, <<"a">>, <<"f">>} : setSearchText(t)
    \/ handleRecentSearch(1)
    \/ handleSearchEmpty
    \/ handleSearch
    \/ \E i \in 1..MaxSearchReq, resp \in {r \in ListResponses : Len(r.docs) <= 1} :
          searchOk(i, 200, resp)
    \/ \E i \in 1..MaxSearchReq, st \in {0, 401} : searchFail(i, st)
    \/ clearSearch
    \/ \E r \in SearchRoutes : Navigate(r)
    \/ \E r \in SearchRoutes : Reload(r)

SpecSearch == InitSearch /\ [][NextSearch]_vars

----------------------------------------------------------------------------
\* The requests of the three data screens under a session of the documented
\* shape, answered with every status: the list fetch of the Dashboard, the
\* card actions of the Dashboard and of the search results, one search at a
\* time and one question per transcript, with navigation and reload.
ReqRoutes == {"/dashboard", "/search", "/qa"}

ReqList == [wrapped |-> TRUE, docs |-> <<D1>>]

NextReq ==
    \/ MountEffects
    \/ bootstrap
    \/ \E i \in 1..MaxDocsReq, st \in Statuses :
          fetchDocumentsOk(i, st, ReqList)
    \/ \E i \in 1..MaxDocsReq, st \in Statuses : fetchDocumentsFail(i, st)
    \/ \E origin \in {"Dashboard", "Search"}, kind \in MutKinds :
          Len(mutReq) < MaxMutReq /\ mutateIssue(origin, kind)
    \/ \E i \in 1..MaxMutReq, st \in Statuses :
          /\ (i <= Len(mutReq) /\ mutReq[i].origin = "Dashboard")
                => Len(docsReq) = 0
          /\ mutateOk(i, st)
    \/ \E i \in 1..MaxMutReq, st \in Statuses : mutateFail(i, st)
    \/ setSearchText(<<"a">>)
    \/ Len(searchReq) = 0 /\ handleSearch
    \/ \E i \in 1..MaxSearchReq, st \in Statuses : searchOk(i, st, ReqList)
    \/ \E i \in 1..MaxSearchReq, st \in Statuses : searchFail(i, st)
    \/ setCurrentQuestion(<<"a">>)
    \/ Len(askReq) = 0 /\ messages = <<>> /\ askAccepted
    \/ \E i \in 1..MaxAskReq : 
          askResolve(i, answerMessage([answer |-> <<"x">>,
                                       sources |-> NoSources]))
    \/ \E i \in 1..MaxAskReq : askResolve(i, errorMessage)
    \/ clearHistory
    \/ \E r \in ReqRoutes : Navigate(r)
    \/ \E r \in ReqRoutes : Reload(r)

SpecReq == InitAt(ReqRoutes) /\ [][NextReq]_vars

----------------------------------------------------------------------------
\* The API adapter with the session store: requests are built with the
\* options of the callers of this repository and with options that carry
\* headers, whatever the stored token is.
NextApi ==
    \/ MountEffects
    \/ bootstrap
    \/ loginIssue
    \/ \E b \in LoginBodies : loginResolve("ok", b)
    \/ handleLogout
    \/ \E o \in CallerOptions \cup HeaderOptions : apiRequestCall(o)

SpecApi == Init /\ [][NextApi]_vars

----------------------------------------------------------------------------
\* The document form with a valid session: the dashboard, the create and
\* the edit routes of the form, and one unrelated screen.
EditRoutes == {"/dashboard", "/add-doc", "/edit-doc/d1"}

\* The fields are edited while no submit is outstanding.
NextEdit ==
    \/ MountEffects
    \/ bootstrap
    \/ \E i \in 1..MaxDocsReq : fetchDocumentsOk(i, 200, ReqList)
    \/ \E i \in 1..MaxDocReq : fetchDocumentOk(i)
    \/ \E i \in 1..MaxDocReq : fetchDocumentFail(i)
    \/ \E t \in {<<"b", " ">>} : Len(submitReq) = 0 /\ setTitle(t)
    \/ \E t \in {<<" ">>, <<" ", "y">>} : Len(submitReq) = 0 /\ setContent(t)
    \/ \E t \in {<<" ">>, <<" ", "A">>} : Len(submitReq) = 0 /\ setNewTag(t)
    \/ Len(submitReq) = 0 /\ handleAddTag
    \/ \E tag \in {"knowledge"} : Len(submitReq) = 0 /\ handleRemoveTag(tag)
    \/ Len(submitReq) = 0 /\ handleGenerateTags
    \/ handleSubmitInvalid
    \/ handleSubmit
    \/ \E i \in 1..MaxSubmitReq, st \in {201, 500} : submitOk(i, st)
    \/ \E i \in 1..MaxSubmitReq, st \in {201, 500} : submitFail(i, st)
    \/ \E r \in EditRoutes : Navigate(r)
    \/ \E r \in EditRoutes : Reload(r)

SpecEdit == InitAt(EditRoutes) /\ [][NextEdit]_vars

----------------------------------------------------------------------------

NextRefresh ==
    \/ MountEffects
    \/ bootstrap
    \/ \E i \in 1..MaxRefresh, resp \in
            {[wrapped |-> TRUE, docs |-> <<D1>>],
             [wrapped |-> TRUE, docs |-> <<D1, D2>>]} :
          fetchDocumentsOk(i, 200, resp)
    \/ \E i \in 1..MaxRefresh : fetchDocumentsFail(i, 500)
    \/ \E kind \in MutKinds : mutateIssue("Dashboard", kind)
    \/ \E i \in 1..MaxCards : mutateOk(i, 200)
    \/ \E i \in 1..MaxCards : mutateFail(i, 500)
    \/ Reload("/dashboard")

SpecRefresh == InitAt({"/dashboard"}) /\ [][NextRefresh]_vars

----------------------------------------------------------------------------
\* Properties of the session store.

Present(x) == x # JsNull

\* C1: once bootstrap has finished, the in-memory user is present if and
\* only if the persisted token is present if and only if the persisted user
\* is present.
C1_SessionConsistent ==
    (mounted /\ ~loading) =>
        /\ isAuthenticated <=> Present(lsToken)
        /\ Present(lsToken) <=> Present(lsUser)

\* C2: a bootstrap that finds the token missing, the user missing or the
\* user text unparsable removes both keys and leaves the session
\* unauthenticated.
C2_BootstrapClears ==
    [][(lastOp'.op = "bootstrap"
        /\ (~Present(lsToken) \/ ~Present(lsUser)
            \/ ~JSONparse(JsString(lsUser)).ok))
       => (~Present(lsToken') /\ ~Present(lsUser') /\ ~Truthy(user'))]_vars

LoggedInAndPersisted ==
    /\ Truthy(user)
    /\ Present(lsToken) /\ lsToken.v # ""
    /\ Present(lsUser) /\ lsUser.v # ""

\* C3 as stated: whenever login resolves true, for any success body, the
\* session is authenticated and both persisted keys are present and
\* non-empty.
C3_AnyBody ==
    [][(lastOp'.op = "login" /\ lastOp'.ret) => LoggedInAndPersisted']_vars

\* C3: whenever login resolves true on a success body of the documented
\* shape (a non-empty token string and a user object), from any prior
\* session state, the session is authenticated and both persisted keys are
\* present and non-empty.
C3_LoginTrue ==
    [][(lastOp'.op = "login" /\ lastOp'.ret /\ lastOp'.wf)
       => LoggedInAndPersisted']_vars

C3_Witness ==
    /\ lastOp.op = "login" /\ lastOp.ret /\ lastOp.wf
    /\ LoggedInAndPersisted

\* C4: a login that fails resolves false and leaves the in-memory user and
\* both persisted keys as they were.
C4_LoginFailureKeepsSession ==
    [][(lastOp'.op = "login" /\ ~lastOp'.ret) => Session' = Session]_vars

C4_Witness ==
    /\ lastOp.op = "login" /\ ~lastOp.ret
    /\ isAuthenticated /\ Present(lsToken) /\ Present(lsUser)

\* C5: logout leaves both persisted keys absent and the session
\* unauthenticated from every session state, and a second logout changes
\* nothing.
C5_LogoutClears ==
    /\ [](LET s == logout(Session)
          IN  /\ ~Present(s.token) /\ ~Present(s.userKey) /\ ~Truthy(s.user)
              /\ logout(s) = s)
    /\ [][lastOp'.op = "logout" =>
            (~Present(lsToken') /\ ~Present(lsUser') /\ ~Truthy(user'))]_vars

C5_Witness ==
    /\ lastOp.op = "logout"
    /\ ~Present(lsToken) /\ ~Present(lsUser) /\ ~isAuthenticated

\* C6: register, whether it resolves true or false, leaves the in-memory
\* user and both persisted keys unchanged.
C6_RegisterKeepsSession ==
    [][lastOp'.op = "register" => Session' = Session]_vars

C6_Witness ==
    /\ lastOp.op = "register" /\ lastOp.ret
    /\ ~isAuthenticated /\ ~loading

\* C7: a document-list fetch, a single-document fetch or an ask request is
\* issued only when bootstrap has finished with an authenticated session.
C7_RequestsGated ==
    [][(Len(docsReq') > Len(docsReq) \/ Len(docReq') > Len(docReq)
        \/ Len(askReq') > Len(askReq))
       => (~loading' /\ Truthy(user'))]_vars

----------------------------------------------------------------------------
\* Properties of the Q&A transcript.

QaMounted == mounted /\ Comp(route) = "QA"

\* C8: an accepted ask appends the question entry with the trimmed text,
\* and the resolution of its request appends exactly one answer entry, to
\* the persisted transcript and to the transcript on screen.
C8_TwoEntriesPerAsk ==
    [][/\ (lastOp'.op = "ask" /\ lastOp'.ret) =>
             /\ messages' = Append(messages,
                                   questionMessage(Trim(currentQuestion)))
             /\ lsQa' = StringifyMessages(messages')
       /\ lastOp'.op = "askResolve" =>
             /\ Len(lsQa'.entries) = Len(lsQa.entries) + 1
             /\ lsQa'.entries[Len(lsQa'.entries)].type = "answer"
             /\ SubSeq(lsQa'.entries, 1, Len(lsQa.entries)) = lsQa.entries
             /\ QaMounted' => lsQa' = StringifyMessages(messages')]_vars

\* C9: at most one ask request is in flight at any time.
C9_OneAskInFlight == Len(askReq) <= 1

\* C10: on the mounted Q&A screen the transcript is what the load effect
\* restores from the persisted text, a non-empty transcript is persisted in
\* full, and no step outside the Q&A handlers changes the persisted text.
C10_PersistedEqualsTranscript ==
    /\ [](QaMounted =>
            /\ messages = LoadHistory(lsQa, <<>>)
            /\ Len(messages) > 0 => lsQa = StringifyMessages(messages))
    /\ [][lastOp'.op \in {"mount", "bootstrap", "navigate", "reload",
                          "logout", "login"} => lsQa' = lsQa]_vars

C10_Witness ==
    /\ QaMounted
    /\ lastOp.op \in {"mount", "navigate"}
    /\ Len(messages) >= 2
    /\ lsQa = StringifyMessages(messages)

IsPrefix(s, t) == Len(s) <= Len(t) /\ SubSeq(t, 1, Len(s)) = s

\* C11: a clearHistory step leaves an empty transcript and no persisted copy
\* whatever the transcript was (so a second one changes nothing more); every
\* other step keeps the persisted entries as a prefix of the new persisted
\* entries, and keeps the transcript of a Q&A screen that stays mounted as a
\* prefix of its new transcript.
C11_OnlyClearRemoves ==
    [][IF lastOp'.op = "clearHistory"
       THEN messages' = <<>> /\ lsQa' = QaAbsent
       ELSE /\ IsPrefix(lsQa.entries, lsQa'.entries)
            /\ (QaMounted /\ QaMounted') => IsPrefix(messages, messages')]_vars

C11_Witness ==
    /\ lastOp.op = "clearHistory"
    /\ QaMounted
    /\ messages = <<>>
    /\ lsQa = QaAbsent
    /\ Len(askReq) > 0

DashMounted == mounted /\ Comp(route) = "Dashboard"

\* C14: a refresh that reports a failure on a Dashboard that stays on the
\* screen leaves the cached list and the tag set as they were.
C14_FailedRefreshKeepsCache ==
    [][(/\ lastOp'.op = "fetchDocuments"
        /\ ~lastOp'.ret
        /\ DashMounted /\ DashMounted')
          => (documents' = documents /\ allTags' = allTags)]_vars

\* s is t with some entries left out, the others in their order of t
IsSubsequence(s, t) ==
    \E f \in [1..Len(s) -> 1..Len(t)] :
        /\ \A i \in 1..Len(s) : t[f[i]] = s[i]
        /\ \A i, j \in 1..Len(s) : i < j => f[i] < f[j]

\* C16: on the Dashboard the filtered list is the whole cached list in its
\* order when the query and the tag selection are empty, and for every query
\* and selection it is a subsequence of the cached list.
C16_FilterKeepsOrder ==
    DashMounted =>
        /\ (searchQuery = <<>> /\ selectedTags = <<>>)
              => filteredDocuments = documents
        /\ IsSubsequence(filteredDocuments, documents)

C16_Witness ==
    /\ DashMounted
    /\ Len(documents) >= 2
    /\ searchQuery = <<"y">>
    /\ selectedTags = <<"u">>
    /\ Len(filteredDocuments) = 1

\* C17: with a non-empty tag selection every document of the filtered list
\* carries every selected tag, and no cached document that lacks one of the
\* selected tags is in the filtered list.
C17_TagFilterIsAnd ==
    (DashMounted /\ selectedTags # <<>>) =>
        /\ \A d \in Items(filteredDocuments) :
              Items(selectedTags) \subseteq Items(d.tags)
        /\ \A d \in Items(documents) :
              (\E tag \in Items(selectedTags) : tag \notin Items(d.tags))
                 => d \notin Items(filteredDocuments)

C17_Witness ==
    /\ DashMounted
    /\ Len(selectedTags) = 2
    /\ documents = <<D2, D1>>
    /\ filteredDocuments = <<D1>>

\* the same letter, whatever the case
SameLetter(c, d) ==
    c = d \/ {c, d} = {"a", "A"} \/ {c, d} = {"b", "B"}

\* q occurs in t at some offset, letters compared without their case
OccursIn(q, t) ==
    \E k \in 0..Len(t) :
        /\ k + Len(q) <= Len(t)
        /\ \A j \in 1..Len(q) : SameLetter(q[j], t[k + j])

PassesText(d, q) ==
    \/ OccursIn(q, d.title)
    \/ OccursIn(q, d.content)
    \/ (d.summary.has /\ OccursIn(q, d.summary.text))

\* C18: on the Dashboard the filtered list holds exactly the cached
\* documents whose title, content or present summary contains the query
\* without regard to case and which carry every selected tag.
C18_FilterIsTextAndTags ==
    DashMounted =>
        /\ IsSubsequence(filteredDocuments, documents)
        /\ \A d \in Items(documents) :
              d \in Items(filteredDocuments)
                 <=> (PassesText(d, searchQuery)
                        /\ Items(selectedTags) \subseteq Items(d.tags))
        /\ Len(filteredDocuments) = Cardinality(Items(filteredDocuments))

C18_Witness ==
    /\ DashMounted
    /\ searchQuery = <<"A", "B">>
    /\ documents = <<D2, D1>>
    /\ filteredDocuments = <<D2>>

NoDuplicates(l) == \A i, j \in 1..Len(l) : l[i] = l[j] => i = j

\* the list a successful search of q leaves when it read the list r:
\* q first, then the other entries of r in their order, at most RecentLimit
MovedToFront(r, q, l) ==
    /\ Len(l) >= 1 /\ l[1] = q
    /\ Len(l) <= RecentLimit
    /\ Len(l) = (IF q \in Items(r) \/ Len(r) = RecentLimit THEN Len(r)
                 ELSE Len(r) + 1)
    /\ IsSubsequence(Tail(l), r)
    /\ q \notin Items(Tail(l))

C13_FailedSearchKeepsResults ==
    /\ [][(lastOp'.op = "search" /\ ~lastOp'.ret) =>
            /\ searchResults' = searchResults
            /\ recentSearches' = recentSearches
            /\ lsRecent' = lsRecent]_vars
    /\ [][searchResults' # searchResults =>
            \/ lastOp'.op = "search" /\ lastOp'.ret
            \/ lastOp'.op = "clearSearch"
            \/ lastOp'.op \in {"navigate", "reload"}]_vars

C13_Witness ==
    /\ lastOp.op = "search" /\ ~lastOp.ret
    /\ mounted /\ route = "/search"
    /\ ~isSearching
    /\ searchResults = <<D1>>
    /\ recentSearches # <<>>

\* C15: every card action that succeeds starts a fetch of the document
\* list.
C15_MutationRefetches ==
    [][(lastOp'.op = "mutate" /\ lastOp'.ret)
          => Len(docsReq') = Len(docsReq) + 1]_vars

\* C19: the request apiRequest hands to fetch carries Content-Type:
\* application/json, and Authorization: Bearer <token> exactly when a token
\* is stored, whatever the options of the caller are.
C19_HeadersInjected ==
    lastOp.op = "apiRequest" =>
        /\ "Content-Type" \in DOMAIN apiConfig.headers
        /\ apiConfig.headers["Content-Type"] = "application/json"
        /\ "Authorization" \in DOMAIN apiConfig.headers <=> Present(lsToken)
        /\ Present(lsToken) =>
              apiConfig.headers["Authorization"] = "Bearer " \o lsToken.v

ApiOps == {"fetchDocuments", "search", "mutate"}

Outstanding ==
    Len(docsReq) + Len(docReq) + Len(searchReq) + Len(mutReq) + Len(askReq)

\* C20: a list fetch, search or card action answered with a status outside
\* 200..299 fails; a failed one, and any answered question, leaves the user
\* in memory and both stored keys as they were and takes exactly its own
\* request out of the outstanding ones without issuing another.
C20_FailuresKeepSession ==
    [][/\ (lastOp'.op \in ApiOps /\ lastOp'.st \notin 200..299)
             => ~lastOp'.ret
       /\ (\/ lastOp'.op \in ApiOps /\ ~lastOp'.ret
           \/ lastOp'.op = "askResolve")
             => /\ Session' = Session
                /\ Outstanding' + 1 = Outstanding]_vars

C20_Witness ==
    /\ lastOp.op = "search" /\ ~lastOp.ret /\ lastOp.st = 401
    /\ user = Obj("u1")
    /\ lsToken = Str("t1")
    /\ lsUser = Str("{u1}")
    /\ Outstanding = 0

----------------------------------------------------------------------------
\* AddEditDoc

\* C21: a submit while the title or the content is blank after trimming
\* issues no request, reports failure, and leaves the form shown with its
\* title, content and tags as they were.
C21_BlankSubmitRejected ==
    [][(lastOp'.op = "handleSubmit" /\ (Trim(title) = <<>> \/ Trim(content) = <<>>))
          => /\ ~lastOp'.ret
             /\ submitReq' = submitReq
             /\ ~isSubmitting'
             /\ FormShown'
             /\ route' = route
             /\ <<title', content', tags'>> = <<title, content, tags>>]_vars

C21_Witness ==
    /\ lastOp.op = "handleSubmit" /\ ~lastOp.ret
    /\ FormShown
    /\ title = <<"b", " ">>
    /\ content = <<" ">>
    /\ submitReq = <<>>

\* the request a live form has outstanding was answered by this step
LiveSubmitAnswered ==
    \E i \in 1..Len(submitReq) :
        submitReq[i].live /\ submitReq' = RemoveAt(submitReq, i)

\* C22: a valid submit issues exactly one request, a create without an
\* identifier and an update of the identifier otherwise; its success leaves
\* for the dashboard; its failure leaves the form of the same route with
\* the submitting flag cleared and the fields as they were.
C22_SubmitOnceThenLeaveOrStay ==
    [][/\ (lastOp'.op = "handleSubmit" /\ lastOp'.ret)
          => /\ Len(submitReq') = Len(submitReq) + 1
             /\ SubSeq(submitReq', 1, Len(submitReq)) = submitReq
             /\ submitReq'[Len(submitReq')].id = IdOf(route)
             /\ submitReq'[Len(submitReq')].kind =
                   (IF IdOf(route) = "" THEN "create" ELSE "update")
       /\ (lastOp'.op = "submit" /\ lastOp'.ret /\ LiveSubmitAnswered)
          => route' = "/dashboard"
       /\ (lastOp'.op = "submit" /\ ~lastOp'.ret /\ LiveSubmitAnswered)
          => /\ route' = route
             /\ Comp(route') = "AddEditDoc"
             /\ ~isSubmitting'
             /\ <<title', content', tags'>> = <<title, content, tags>>]_vars

C22_Witness ==
    /\ lastOp.op = "submit" /\ ~lastOp.ret
    /\ FormShown
    /\ route = "/edit-doc/d1"
    /\ ~isSubmitting
    /\ title = <<"b", " ">>
    /\ submitReq = <<>>

\* the fetch a live form has outstanding was answered by this step
LiveFetchAnswered(id) ==
    \E i \in 1..Len(docReq) :
        /\ docReq[i].live
        /\ docReq[i].id = id
        /\ docReq' \in {RemoveAt(docReq, i), Orphaned(RemoveAt(docReq, i))}

\* C23: the fetch of the document of an edit route, when it succeeds, makes
\* the fields those of the fetched document; when it fails the location
\* becomes the dashboard and the form of that identifier is not shown.
C23_EditEntryFetches ==
    [][\A id \in {"d1", "d2"} :
          /\ (lastOp'.op = "fetchDocument" /\ lastOp'.ret
                 /\ LiveFetchAnswered(id))
              => /\ title' = DocById(id).title
                 /\ content' = DocById(id).content
                 /\ tags' = DocById(id).tags
          /\ (lastOp'.op = "fetchDocument" /\ ~lastOp'.ret
                 /\ LiveFetchAnswered(id))
              => /\ route' = "/dashboard"
                 /\ ~FormShown']_vars

C23_Witness ==
    /\ lastOp.op = "fetchDocument" /\ lastOp.ret
    /\ FormShown
    /\ route = "/edit-doc/d1"
    /\ <<title, content, tags>> = <<D1.title, D1.content, D1.tags>>

\* C24: handleAddTag appends the trimmed, lower-cased input exactly when it
\* is non-empty and absent from the list, and otherwise leaves the list;
\* adding the same input again changes nothing; a list without duplicates
\* stays without duplicates under every step.
C24_TagsStayDistinct ==
    [][/\ NoDuplicates(tags) => NoDuplicates(tags')
       /\ lastOp'.op = "handleAddTag"
            => LET v == trimmedTag(newTag)
               IN  IF v # "" /\ ~hasItem(tags, v)
                   THEN tags' = Append(tags, v) /\ lastOp'.ret
                   ELSE tags' = tags /\ ~lastOp'.ret
       /\ \A t \in {<<" ">>, <<" ", "A">>} :
              addTag(addTag(tags', t), t) = addTag(tags', t)]_vars

C24_Witness ==
    /\ lastOp.op = "handleAddTag" /\ ~lastOp.ret
    /\ newTag = <<" ", "A">>
    /\ hasItem(tags, "a")
    /\ hasItem(tags, "knowledge")
    /\ Len(tags) = 4

Storage == <<lsToken, lsUser, lsQa, lsRecent>>

\* C25: adding, removing and generating tags change the tag list of the
\* form and nothing of the title, the content, the cached list, the
\* storage or the outstanding requests; the one request issued by a submit
\* carries the tag list the form has at that moment.
C25_TagsSentAtSubmit ==
    [][/\ lastOp'.op \in
              {"handleAddTag", "handleRemoveTag", "handleGenerateTags"}
            => /\ <<authReq', docsReq', docReq', mutReq', searchReq',
                    askReq', submitReq'>>
                    = <<authReq, docsReq, docReq, mutReq, searchReq, askReq,
                        submitReq>>
               /\ Storage' = Storage
               /\ <<title', content', route'>> = <<title, content, route>>
               /\ <<documents', allTags'>> = <<documents, allTags>>
       /\ (lastOp'.op = "handleSubmit" /\ lastOp'.ret)
            => /\ submitReq'[Len(submitReq')].tags = tags
               /\ tags' = tags
       /\ Len(submitReq') > Len(submitReq)
            => lastOp'.op = "handleSubmit"]_vars

C25_Witness ==
    /\ lastOp.op = "handleSubmit" /\ lastOp.ret
    /\ Len(submitReq) = 1
    /\ submitReq[1].tags = tags
    /\ tags = <<"t", "u", "a", "ai-generated", "documentation">>

\* C26: the answer to a request whose screen was discarded before it
\* arrived changes neither the location, nor the state of the screen now
\* shown, nor the storage.
C26_DiscardedAnswerInert ==
    [][((lastOp'.op = "fetchDocument"
           /\ Len(docReq') < Len(docReq)
           /\ (\A i \in 1..Len(docReq) : ~docReq[i].live))
        \/
         (lastOp'.op = "submit"
           /\ Len(submitReq') < Len(submitReq)
           /\ (\A i \in 1..Len(submitReq) : ~submitReq[i].live)))
          => /\ route' = route
             /\ <<title', content', tags', newTag'>>
                   = <<title, content, tags, newTag>>
             /\ <<documents', allTags', isLoading'>>
                   = <<documents, allTags, isLoading>>
             /\ Storage' = Storage]_vars

\* question, answer, question, answer, ...
Alternates(l) ==
    \A i \in 1..Len(l) :
        l[i].type = (IF i % 2 = 1 THEN "question" ELSE "answer")

\* C27: the transcript, on screen and stored, alternates question and
\* answer starting with a question, and ends with a question only while an
\* ask is outstanding.
C27_TranscriptAlternates ==
    /\ QaMounted => Alternates(messages)
    /\ Alternates(lsQa.entries)
    /\ Len(lsQa.entries) % 2 = 1 => Len(askReq) > 0

\* C28: when several list fetches are outstanding, the list and the tag
\* set cached are those of the answer to the fetch issued last, whatever
\* the order of the answers: the answer to a fetch that was overtaken does
\* not replace them.
C28_LatestRefreshWins ==
    [][(lastOp'.op = "fetchDocuments" /\ lastOp'.ret
          /\ Len(docsReq') < Len(docsReq)
          /\ (\A i \in 1..Len(docsReq) :
                 docsReq[i].live /\ docsReq[i].overtaken))
          => <<documents', allTags'>> = <<documents, allTags>>]_vars

\* some request of the mounted screen is outstanding
AnyLive(reqs) == \E i \in 1..Len(reqs) : reqs[i].live

\* C29: each in-flight flag of the mounted screen is true exactly while a
\* request of that screen is outstanding.
C29_FlagsTrackRequests ==
    /\ (mounted /\ Comp(route) = "Dashboard")
          => (isLoading <=> AnyLive(docsReq))
    /\ (mounted /\ Comp(route) = "Search")
          => (isSearching <=> AnyLive(searchReq))
    /\ (mounted /\ Comp(route) = "QA")
          => (isAsking <=> AnyLive(askReq))
    /\ (mounted /\ Comp(route) = "AddEditDoc")
          => /\ isLoadingDoc <=> AnyLive(docReq)
             /\ isSubmitting <=> AnyLive(submitReq)

\* C30: the fields of the form belong to the identifier of its route: the
\* create form is empty when it is entered, also when it is entered from
\* the form of an existing document, and the form of an identifier shown
\* after its fetch holds the fields of that document.
C30_FieldsBelongToRoute ==
    [][/\ (lastOp'.op = "navigate" /\ route # route' /\ route' = "/add-doc")
            => <<title', content', tags'>> = <<<<>>, <<>>, <<>>>>
       /\ (lastOp'.op = "fetchDocument" /\ lastOp'.ret /\ FormShown'
              /\ IdOf(route') # "")
            => /\ title' = DocById(IdOf(route')).title
               /\ content' = DocById(IdOf(route')).content
               /\ tags' = DocById(IdOf(route')).tags]_vars

====
